---- MODULE Spec2Model ----
(***************************************************************************)
(* Model of scrape_bunker_prices.py: one scraping cycle (main) with its    *)
(* fetches, the three record extractors, the numeric normalizer and the    *)
(* append-only CSV sink.                                                   *)
(*                                                                         *)
(* Text is a sequence of characters, each a one-character string; a        *)
(* character a TLA+ string cannot hold is written as its code point        *)
(* ("U+00A0"), and a decimal digit outside ASCII as "Nd0" .. "Nd9", which  *)
(* stands for any character of category Nd with that value.                *)
(*                                                                         *)
(* A float is <<sign, digits, x, radix>>, standing for                     *)
(* sign * digits * radix^(-x), the digits in that radix, most significant  *)
(* first.  A double that is the double of a decimal of at most 15          *)
(* significant digits (there is at most one such decimal) is written by    *)
(* that decimal, radix 10, with no leading zero digit and no trailing zero *)
(* digit unless x = 0; any other double is written in radix 2 by its odd   *)
(* mantissa.  Zero is <<0, <<>>, 0, 10>> and an infinity                   *)
(* <<sign, <<>>, 0, 0>>.  Equal doubles are so equal tuples.               *)
(***************************************************************************)
EXTENDS Integers, Sequences, FiniteSets, TLC

\* --------------------------------------------------------- program constants
max_retries == 3
RetryDelay == 5
RequestTimeout == 30
MinFuelCells == 5
MinMethanolCells == 3
MinEuaCells == 5
SecondsPerMinute == 60

\* ------------------------------------------------------------------- text
\* \d of a str pattern and float() take every decimal digit of Unicode
AsciiDigits == {"0", "1", "2", "3", "4", "5", "6", "7", "8", "9"}
OtherDigits == {"Nd0", "Nd1", "Nd2", "Nd3", "Nd4", "Nd5", "Nd6", "Nd7", "Nd8", "Nd9"}
Digits == AsciiDigits \cup OtherDigits
Signs == {"+", "-"}

\* The characters str.strip() removes: those for which str.isspace() holds
Whitespace ==
    {" ", "\t", "\n", "\r", "\f", "U+000B", "U+001C", "U+001D", "U+001E",
     "U+001F", "U+0085", "U+00A0", "U+1680", "U+2000", "U+2001", "U+2002",
     "U+2003", "U+2004", "U+2005", "U+2006", "U+2007", "U+2008", "U+2009",
     "U+200A", "U+2028", "U+2029", "U+202F", "U+205F", "U+3000"}

DigitVal(c) ==
    CASE c \in {"0", "Nd0"} -> 0 [] c \in {"1", "Nd1"} -> 1
      [] c \in {"2", "Nd2"} -> 2 [] c \in {"3", "Nd3"} -> 3
      [] c \in {"4", "Nd4"} -> 4 [] c \in {"5", "Nd5"} -> 5
      [] c \in {"6", "Nd6"} -> 6 [] c \in {"7", "Nd7"} -> 7
      [] c \in {"8", "Nd8"} -> 8 [] c \in {"9", "Nd9"} -> 9

\* The least and the greatest member of a non-empty set of integers
Least(S) == CHOOSE i \in S : \A j \in S : i <= j
Greatest(S) == 0 - Least({0 - i : i \in S})

\* str.strip(): leading and trailing whitespace removed
LStrip(s) ==
    LET others == {i \in 1..Len(s) : s[i] \notin Whitespace}
    IN  IF others = {} THEN <<>> ELSE SubSeq(s, Least(others), Len(s))

RStrip(s) ==
    LET others == {i \in 1..Len(s) : s[i] \notin Whitespace}
    IN  IF others = {} THEN <<>> ELSE SubSeq(s, 1, Greatest(others))

Strip(s) == RStrip(LStrip(s))

\* Where the match of <[^>]+> that starts at s[t] ends, 0 when there is
\* none: the first ">" after s[t], provided another character precedes it.
TagEnd(s, t) ==
    IF s[t] # "<" THEN 0
    ELSE LET closers == {j \in (t + 1)..Len(s) : s[j] = ">"}
         IN  IF closers = {} \/ Least(closers) < t + 2 THEN 0
             ELSE Least(closers)

\* re.sub(r'<[^>]+>', '', text): the characters outside every match.  A "<"
\* inside a match would match up to the same ">", so a character is inside
\* a match exactly when some "<" at or before it matches up to or past it.
StripTags(s) ==
    LET inside(i) == \E t \in 1..i : TagEnd(s, t) >= i
        outside == SelectSeq(SubSeq([i \in 1..Len(s) |-> i], 1, Len(s)),
                             LAMBDA i : ~inside(i))
    IN  SubSeq([k \in 1..Len(outside) |-> s[outside[k]]], 1, Len(outside))

\* Start of the leftmost match of [+-]?\d+\.?\d* in s, 0 when there is none
MatchStart(s) ==
    LET starts == {i \in 1..Len(s) :
                     \/ s[i] \in Digits
                     \/ s[i] \in Signs /\ i < Len(s) /\ s[i + 1] \in Digits}
    IN  IF starts = {} THEN 0
        ELSE Least(starts)

\* Length of the longest run of digits of s that starts at index i
DigitRun(s, i) ==
    LET others == {j \in i..Len(s) : s[j] \notin Digits}
    IN  IF others = {} THEN Len(s) - i + 1 ELSE Least(others) - i

\* a without its leading zeros
StripZeros(a) ==
    LET others == {i \in 1..Len(a) : a[i] # 0}
    IN  IF others = {} THEN <<>> ELSE SubSeq(a, Least(others), Len(a))

\* a without its trailing zeros
DropZerosRight(a) ==
    LET others == {i \in 1..Len(a) : a[i] # 0}
    IN  IF others = {} THEN <<>> ELSE SubSeq(a, 1, Greatest(others))

\* The natural number a sequence of digit characters writes: its decimal
\* digits, most significant first, none for zero
DigitsValue(ds) == StripZeros(SubSeq([i \in 1..Len(ds) |-> DigitVal(ds[i])], 1, Len(ds)))

Zero == <<0, <<>>, 0, 10>>
Inf(sign) == <<sign, <<>>, 0, 0>>

\* The decimal sign * mag * 10^(-e) in its normal form
Normal(sign, mag, e) ==
    IF mag = <<>> THEN Zero
    ELSE LET zeros == Len(mag) - Len(DropZerosRight(mag))
             drop == IF zeros < e THEN zeros ELSE e
         IN  <<sign, SubSeq(mag, 1, Len(mag) - drop), e - drop, 10>>

\* float() rounds to the nearest IEEE 754 double, ties to even
MantissaBits == 53
MaxExponent == 1023
MinExponent == 0 - 1022
\* Every decimal of up to ExactDigits significant digits and a magnitude
\* between 10^(-DecimalRange) and 10^DecimalRange has a double of its own
ExactDigits == 15
DecimalRange == 300
\* 10^InfDigits is beyond the largest double, 10^(-ZeroDigits) is below
\* half the smallest
InfDigits == 309
ZeroDigits == 324

\* Arithmetic on naturals written as decimal digits, most significant first,
\* with no leading zero (<<>> is 0)
\* -1, 0 or 1 as a < b, a = b or a > b
Cmp(a, b) ==
    IF Len(a) < Len(b) THEN 0 - 1
    ELSE IF Len(a) > Len(b) THEN 1
    ELSE LET differ == {i \in 1..Len(a) : a[i] # b[i]}
         IN  IF differ = {} THEN 0
             ELSE IF a[Least(differ)] < b[Least(differ)] THEN 0 - 1
             ELSE 1

\* 2 * a: a digit takes a carry from its right neighbour only
Dbl(a) ==
    LET n == Len(a)
        body == [i \in 1..n |->
                   ((2 * a[i]) % 10) + (IF i < n /\ a[i + 1] >= 5 THEN 1 ELSE 0)]
    IN  (IF a # <<>> /\ a[1] >= 5 THEN <<1>> ELSE <<>>) \o SubSeq(body, 1, n)

\* 2^n * a
RECURSIVE DblN(_, _)
DblN(a, n) == IF n = 0 THEN a ELSE DblN(Dbl(a), n - 1)
CoarseStep == 16

\* a - b, for a >= b: digit i borrows when the digits of a to its right
\* write less than those of b
Sub(a, b) ==
    LET n == Len(a)
        pad == n - Len(b)
        bb == SubSeq([i \in 1..n |-> IF i > pad THEN b[i - pad] ELSE 0], 1, n)
        differ == {i \in 1..n : a[i] # bb[i]}
        borrow(i) ==
            LET right == {j \in differ : j > i}
            IN  IF right # {} /\ a[Least(right)] < bb[Least(right)] THEN 1 ELSE 0
    IN  StripZeros(SubSeq([i \in 1..n |-> (a[i] - bb[i] - borrow(i) + 10) % 10],
                          1, n))

\* a + 1 on the digits of a in the given radix
RECURSIVE IncAt(_, _, _)
IncAt(a, i, radix) ==
    IF i = 0 THEN <<1>> \o a
    ELSE IF a[i] < radix - 1 THEN [a EXCEPT ![i] = a[i] + 1]
    ELSE IncAt([a EXCEPT ![i] = 0], i - 1, radix)

PowerOfTen(e) == <<1>> \o SubSeq([i \in 1..e |-> 0], 1, e)

\* <<A, B, E>> with a/b = (A/B) * 2^E and 1 <= A/B < 2
RECURSIVE Scale(_, _, _)
Scale(a, b, E) ==
    IF Cmp(a, b) < 0
    THEN IF Cmp(DblN(a, CoarseStep), b) < 0
         THEN Scale(DblN(a, CoarseStep), b, E - CoarseStep)
         ELSE Scale(Dbl(a), b, E - 1)
    ELSE IF Cmp(a, Dbl(b)) >= 0
    THEN IF Cmp(a, DblN(b, CoarseStep)) >= 0
         THEN Scale(a, DblN(b, CoarseStep), E + CoarseStep)
         ELSE Scale(a, Dbl(b), E + 1)
    ELSE <<a, b, E>>

\* The next n binary digits of a/b (0 <= a/b < 2) after acc, and the
\* remainder, doubled
RECURSIVE Gen(_, _, _, _)
Gen(a, b, n, acc) ==
    IF n = 0 THEN <<acc, a>>
    ELSE IF Cmp(a, b) >= 0 THEN Gen(Dbl(Sub(a, b)), b, n - 1, Append(acc, 1))
    ELSE Gen(Dbl(a), b, n - 1, Append(acc, 0))

\* The double of the binary digits bits, kept of them after the first carry
\* 2^E: sign * bits * 2^(E - kept + 1)
Packed(sign, E, kept, bits) ==
    LET top == E + (Len(bits) - kept)
        mant == DropZerosRight(bits)
    IN  IF mant = <<>> THEN Zero
        ELSE IF top > MaxExponent THEN Inf(sign)
        ELSE <<sign, mant, (Len(mant) - 1) - top, 2>>

\* The binary digits g[1] rounded to nearest by the remainder g[2] of the
\* division by b, ties to even
Rounded(sign, E, kept, g, b) ==
    LET half == Cmp(g[2], b) >= 0
        up == half /\ (Sub(g[2], b) # <<>> \/ (kept > 0 /\ g[1][kept] = 1))
    IN  Packed(sign, E, kept, IF up THEN IncAt(g[1], kept, 2) ELSE g[1])

\* The double nearest to sign * (sc[1] / sc[2]) * 2^sc[3], 1 <= sc[1]/sc[2] < 2:
\* MantissaBits binary digits, fewer below the smallest normal double
Nearest(sign, sc) ==
    LET kept == IF sc[3] >= MinExponent THEN MantissaBits
                ELSE MantissaBits - (MinExponent - sc[3])
    IN  IF kept < 0 THEN Zero
        ELSE Rounded(sign, sc[3], kept, Gen(sc[1], sc[2], kept, <<>>), sc[2])

\* The double nearest to sign * mag * 10^(-e), mag # <<>>, in radix 2
ToDouble(sign, mag, e) ==
    IF Len(mag) - e > InfDigits THEN Inf(sign)
    ELSE IF Len(mag) - e < 0 - ZeroDigits THEN Zero
    ELSE Nearest(sign, Scale(mag, PowerOfTen(e), 0))

\* mag * 10^(-e) rounded to ExactDigits significant digits, for a mag of
\* more digits than that
RoundDecimal(mag, e) ==
    LET first == SubSeq(mag, 1, ExactDigits)
        r == IF mag[ExactDigits + 1] >= 5 THEN IncAt(first, ExactDigits, 10)
             ELSE first
    IN  <<r \o SubSeq([i \in 1..(Len(mag) - ExactDigits) |-> 0], 1,
                      Len(mag) - ExactDigits), e>>

\* The double d of a numeral, written as the decimal c when c is within the
\* range where decimals of ExactDigits digits have doubles of their own and
\* (exact, or) c has the double d
Shortest(sign, c, exact, d) ==
    IF /\ Len(c[1]) - c[2] <= DecimalRange
       /\ Len(c[1]) - c[2] >= 0 - DecimalRange
       /\ (exact \/ ToDouble(sign, c[1], c[2]) = d)
    THEN Normal(sign, c[1], c[2])
    ELSE d

\* The float of the numeral sign * mag * 10^(-e): float(numeral)
Float(sign, mag, e) ==
    IF mag = <<>> THEN Zero
    ELSE IF Len(DropZerosRight(mag)) <= ExactDigits
    THEN Shortest(sign, <<mag, e>>, TRUE, ToDouble(sign, mag, e))
    ELSE Shortest(sign, RoundDecimal(mag, e), FALSE, ToDouble(sign, mag, e))

\* float(numeric_match.group()) for the match that starts at index i
MatchValue(s, i) ==
    LET signed == s[i] \in Signs
        d0 == IF signed THEN i + 1 ELSE i
        n == DigitRun(s, d0)
        dot == d0 + n <= Len(s) /\ s[d0 + n] = "."
        f == IF dot THEN DigitRun(s, d0 + n + 1) ELSE 0
        whole == SubSeq(s, d0, d0 + n - 1)
        frac == IF dot THEN SubSeq(s, d0 + n + 1, d0 + n + f) ELSE <<>>
        mag == DigitsValue(whole \o frac)
    IN  Float(IF signed /\ s[i] = "-" THEN 0 - 1 ELSE 1, mag, f)

clean_numeric_value(text) ==
    IF text = <<>> THEN Zero
    ELSE LET cleaned == Strip(StripTags(text))
             i == MatchStart(cleaned)
         IN  IF i # 0 THEN MatchValue(cleaned, i) ELSE Zero

\* -------------------------------------------------------------- documents
\* A parsed page, as far as the extractors look at it.  A row is a <tr>: its
\* <th class="port"> (if any, with the text of its <a>, if any) and its <td>
\* cells in document order, each with its text and whether its class is
\* "price".  A table is a <table> of the class looked for (if any) with its
\* <tbody> (if any).  A block is a <div> of the id looked for.
FuelTypes == <<"VLSFO", "MGO", "IFO380">>
FuelTypeSet == {FuelTypes[i] : i \in 1..Len(FuelTypes)}

Cell(t, p) == [text |-> t, price |-> p]
PortLink(l) == [has_port |-> TRUE, has_link |-> TRUE, link |-> l, text |-> l]
PortText(t) == [has_port |-> TRUE, has_link |-> FALSE, link |-> <<>>, text |-> t]
NoPortCell == [has_port |-> FALSE, has_link |-> FALSE, link |-> <<>>, text |-> <<>>]
Row(port, cells) == [port |-> port, cells |-> cells]
Table(rows) == [present |-> TRUE, has_tbody |-> TRUE, rows |-> rows]
NoTbody == [present |-> TRUE, has_tbody |-> FALSE, rows |-> <<>>]
NoTable == [present |-> FALSE, has_tbody |-> FALSE, rows |-> <<>>]
Block(table) == [present |-> TRUE, table |-> table]
NoBlock == [present |-> FALSE, table |-> NoTable]

Page(tables, b1053, b1070) ==
    [tables |-> tables, block_1053 |-> b1053, block_1070 |-> b1070]

\* ------------------------------------------------------------- extractors
\* port_link.text.strip() if port_link else port_cell.text.strip()
port_name(row) ==
    IF row.port.has_link THEN Strip(row.port.link) ELSE Strip(row.port.text)

\* row.find_all('td', class_='price')
RECURSIVE price_cells(_)
price_cells(cells) ==
    IF cells = <<>> THEN <<>>
    ELSE (IF Head(cells).price THEN <<Head(cells)>> ELSE <<>>)
         \o price_cells(Tail(cells))

\* One pass of the row loop of scrape_fuel_prices: the records the row adds
FuelRowRecords(row, fuel_type) ==
    IF ~row.port.has_port THEN <<>>
    ELSE LET cells == row.cells
         IN  IF Len(cells) >= MinFuelCells
             THEN << [fuel_type |-> fuel_type,
                      port |-> port_name(row),
                      price_usd_mt |-> clean_numeric_value(Strip(cells[1].text)),
                      change |-> clean_numeric_value(Strip(cells[2].text)),
                      high |-> clean_numeric_value(Strip(cells[3].text)),
                      low |-> clean_numeric_value(Strip(cells[4].text)),
                      spread |-> clean_numeric_value(Strip(cells[5].text))] >>
             ELSE <<>>

\* Mutation: the row loop left at the first row that gives no record
RECURSIVE FuelRowsBreak(_, _)
FuelRowsBreak(rows, fuel_type) ==
    IF rows = <<>> THEN <<>>
    ELSE IF FuelRowRecords(Head(rows), fuel_type) = <<>> THEN <<>>
    ELSE FuelRowRecords(Head(rows), fuel_type) \o FuelRowsBreak(Tail(rows), fuel_type)

RECURSIVE FuelRows(_, _)
FuelRows(rows, fuel_type) ==
    IF rows = <<>> THEN <<>>
    ELSE FuelRowRecords(Head(rows), fuel_type) \o FuelRows(Tail(rows), fuel_type)

\* scrape_fuel_prices from the table lookup on: what a successful attempt
\* returns when soup.find gave table (absent: the warning and [])
TableRecords(table, fuel_type) ==
    IF ~table.present THEN <<>>
    ELSE IF table.has_tbody THEN FuelRows(table.rows, fuel_type)
    ELSE <<>>

\* soup.find('table', class_=f'price-table {fuel_type}') and the parse
ParseFuelPage(page, fuel_type) == TableRecords(page.tables[fuel_type], fuel_type)

\* Mutation: the cells read in the order the comment gives (gray, VLSFOe, MGOe)
MethanolRowRecordsByComment(row) ==
    IF ~row.port.has_port THEN <<>>
    ELSE LET pcs == price_cells(row.cells)
         IN  IF Len(pcs) >= MinMethanolCells
             THEN << [port |-> port_name(row),
                      gray_methanol_usd_mt |-> clean_numeric_value(pcs[1].text),
                      meoh_vlsfoe_usd_mte |-> clean_numeric_value(pcs[2].text),
                      meoh_mgoe_usd_mte |-> clean_numeric_value(pcs[3].text)] >>
             ELSE <<>>

\* One pass of the row loop of scrape_methanol_prices
MethanolRowRecords(row) ==
    IF ~row.port.has_port THEN <<>>
    ELSE LET pcs == price_cells(row.cells)
         IN  IF Len(pcs) >= MinMethanolCells
             THEN << [port |-> port_name(row),
                      gray_methanol_usd_mt |-> clean_numeric_value(pcs[3].text),
                      meoh_vlsfoe_usd_mte |-> clean_numeric_value(pcs[1].text),
                      meoh_mgoe_usd_mte |-> clean_numeric_value(pcs[2].text)] >>
             ELSE <<>>

RECURSIVE MethanolRows(_)
MethanolRows(rows) ==
    IF rows = <<>> THEN <<>>
    ELSE MethanolRowRecords(Head(rows)) \o MethanolRows(Tail(rows))

scrape_methanol_prices(soup) ==
    LET methanol_block == soup.block_1053
    IN  IF ~methanol_block.present THEN <<>>
        ELSE IF ~methanol_block.table.present THEN <<>>
        ELSE IF methanol_block.table.has_tbody
             THEN MethanolRows(methanol_block.table.rows)
        ELSE <<>>

scrape_eua_prices(soup) ==
    LET eua_block == soup.block_1070
    IN  IF ~eua_block.present THEN <<>>
        ELSE IF ~eua_block.table.present THEN <<>>
        ELSE IF eua_block.table.has_tbody /\ eua_block.table.rows # <<>>
             THEN LET pcs == price_cells(Head(eua_block.table.rows).cells)
                  IN  IF Len(pcs) >= MinEuaCells
                      THEN << [eua_eur |-> clean_numeric_value(pcs[1].text),
                               eua_usd |-> clean_numeric_value(pcs[2].text),
                               eua_vlsfo_usd_mt |-> clean_numeric_value(pcs[3].text),
                               eua_mgo_usd_mt |-> clean_numeric_value(pcs[4].text),
                               eua_hfo_usd_mt |-> clean_numeric_value(pcs[5].text)] >>
                      ELSE <<>>
        ELSE <<>>

\* ------------------------------------------------------------- timestamps
\* strftime("%d/%m/%Y %H:%M") of the clock (seconds since the epoch): the
\* date, the hour and the minute; the seconds are dropped.
get_utc_timestamp(now) ==
    <<now \div (24 * 60 * SecondsPerMinute),
      (now \div (60 * SecondsPerMinute)) % 24,
      (now \div SecondsPerMinute) % 60>>

\* for price in prices: price['timestamp'] = timestamp
StampAll(prices, ts) ==
    [i \in 1..Len(prices) |-> [timestamp |-> ts] @@ prices[i]]

\* ------------------------------------------------------------------- sink
FuelFile == "master_fuel_prices.csv"
MethanolFile == "master_methanol_prices.csv"
EuaFile == "master_eua_prices.csv"
FileNames == {FuelFile, MethanolFile, EuaFile}

fuel_fieldnames ==
    <<"timestamp", "fuel_type", "port", "price_usd_mt", "change", "high",
      "low", "spread">>
methanol_fieldnames ==
    <<"timestamp", "port", "gray_methanol_usd_mt", "meoh_vlsfoe_usd_mte",
      "meoh_mgoe_usd_mte">>
eua_fieldnames ==
    <<"timestamp", "eua_eur", "eua_usd", "eua_vlsfo_usd_mt", "eua_mgo_usd_mt",
      "eua_hfo_usd_mt">>

\* A file is [exists, lines].  A line is <<"header", names>> or
\* <<"data", values>>, or, where a write was cut short, one of
\*   <<"cut", line>>           the first bytes of line, its line end not
\*                             among them: the file ends there;
\*   <<"joined", part, line>>  the first bytes of part, then line whole.
NoFile == [exists |-> FALSE, lines |-> <<>>]

CutLine(line) == <<"cut", line>>
JoinedLine(part, line) == <<"joined", part, line>>
EndsCut(lines) == lines # <<>> /\ lines[Len(lines)][1] = "cut"

\* The lines of a file opened with mode 'a' once the lines new are written
\* to it: they go right after its last byte, so the first of them goes onto
\* a line that was cut short
AppendLines(lines, new) ==
    IF new = <<>> \/ ~EndsCut(lines) THEN lines \o new
    ELSE LET part == lines[Len(lines)][2]
             first == IF new[1][1] = "cut"
                      THEN CutLine(JoinedLine(part, new[1][2]))
                      ELSE JoinedLine(part, new[1])
         IN  SubSeq(lines, 1, Len(lines) - 1) \o <<first>> \o Tail(new)

\* writer.writeheader()
HeaderLine(fieldnames) == <<"header", fieldnames>>

\* writer.writerow(item): the values in field order, '' (the empty text) for
\* a missing key.  No record of the program has a key outside its fieldnames,
\* so DictWriter's ValueError for an extra key does not arise.
DataLine(item, fieldnames) ==
    <<"data", [i \in 1..Len(fieldnames) |->
                 IF fieldnames[i] \in DOMAIN item THEN item[fieldnames[i]]
                 ELSE <<>>]>>

DataLines(data, fieldnames) ==
    [i \in 1..Len(data) |-> DataLine(data[i], fieldnames)]

\* Mutation: the header written at every call
append_to_csv_always_header(fs, filename, data, fieldnames) ==
    [fs EXCEPT ![filename] =
       [exists |-> TRUE,
        lines |-> AppendLines(@.lines, <<HeaderLine(fieldnames)>>
                                       \o DataLines(data, fieldnames))]]

\* Mutation: the file opened with mode 'w'
append_to_csv_truncating(fs, filename, data, fieldnames) ==
    [fs EXCEPT ![filename] =
       [exists |-> TRUE,
        lines |-> (IF ~fs[filename].exists THEN <<HeaderLine(fieldnames)>> ELSE <<>>)
                  \o DataLines(data, fieldnames)]]

\* The lines a call of append_to_csv writes: the header if the file did not
\* exist when the call looked, then a line for each record
PendingLines(fs, filename, data, fieldnames) ==
    LET file_exists == fs[filename].exists
    IN  (IF ~file_exists THEN <<HeaderLine(fieldnames)>> ELSE <<>>)
        \o DataLines(data, fieldnames)

\* append_to_csv cut short after open(filename, 'a'): the file exists, and
\* of the bytes of the call the first k lines have reached it and, if torn,
\* the first bytes of the next line
append_to_csv_cut(fs, filename, data, fieldnames, k, torn) ==
    LET pending == PendingLines(fs, filename, data, fieldnames)
    IN  [fs EXCEPT ![filename] =
           [exists |-> TRUE,
            lines |-> AppendLines(@.lines,
                                  SubSeq(pending, 1, k)
                                  \o (IF torn THEN <<CutLine(pending[k + 1])>>
                                      ELSE <<>>))]]

\* append_to_csv: the file system after the call
append_to_csv(fs, filename, data, fieldnames) ==
    [fs EXCEPT ![filename] =
       [exists |-> TRUE,
        lines |-> AppendLines(@.lines,
                              PendingLines(fs, filename, data, fieldnames))]]

\* ----------------------------------------------------------------- inputs
\* ------------------------------------------------------------------ bounds
MaxRows == 2
MaxCycles == 2
MaxAppends == 3
MaxFailures == 2
FetchSeconds == 1
CronPeriod == 300

\* Cell texts as the page may hold them
CellsA ==
    <<Cell(<<"6", "1", "2", ".", "5", "0">>, TRUE), Cell(<<"+", "3", ".", "5">>, FALSE), Cell(<<"6", "Nd2", "0">>, TRUE),
      Cell(<<"$", "U+2003", "6", "0", "5", "\r">>, TRUE), Cell(<<"1", "5", ".", "0">>, TRUE), Cell(<<"9", "9">>, TRUE)>>
CellsB ==
    <<Cell(<<"n", "/", "a">>, TRUE), Cell(<<"-", "1", ".", "2", "5">>, TRUE),
      Cell(<<"<", "b", ">", "7", "<", "/", "b", ">">>, FALSE), Cell(<<>>, TRUE),
      Cell(<<"8", ".">>, TRUE), Cell(<<"1">>, FALSE)>>
CellsE ==
    <<Cell(<<"7", "1", ".", "2">>, TRUE), Cell(<<"7", "7">>, TRUE), Cell(<<"2", "3", "0">>, TRUE),
      Cell(<<"2", "3", "1", ".", "5">>, TRUE), Cell(<<"-", "4">>, TRUE), Cell(<<"0", ".", "5">>, TRUE)>>

PLinkRot == PortLink(<<"U+00A0", " ", "R", "o", "t", "\r", "\n">>)
PTextRot == PortText(<<"R", "o", "t">>)
PTextSin == PortText(<<"\f", "S", "i", "n", " ">>)

\* Rows of a fuel table: no port cell, a linked or a plain one; 5, 4, 6 or no cells
FuelCellRuns == {SubSeq(CellsA, 1, 5), SubSeq(CellsA, 1, 4), CellsB, <<>>}
FuelRowSet == {Row(p, c) : p \in {NoPortCell, PLinkRot, PTextSin}, c \in FuelCellRuns}

\* Rows of a main-page table: 4, 3, 2, 4 or 6 price-tagged cells
BaseCellRuns ==
    {SubSeq(CellsA, 1, 5), SubSeq(CellsA, 1, 4), SubSeq(CellsA, 1, 3), CellsB, CellsE}
BaseRowSet == {Row(p, c) : p \in {NoPortCell, PLinkRot, PTextSin}, c \in BaseCellRuns}

RECURSIVE SeqsUpTo(_, _)
SeqsUpTo(S, n) ==
    IF n = 0 THEN {<<>>}
    ELSE LET shorter == SeqsUpTo(S, n - 1)
         IN  shorter \cup {Append(q, x) : q \in shorter, x \in S}

\* Every table of at most MaxRows rows, and the two degenerate regions
RichTables(rowset) ==
    {NoTable, NoTbody} \cup {Table(rows) : rows \in SeqsUpTo(rowset, MaxRows)}

NoTables == [f \in FuelTypeSet |-> NoTable]
RowE == Row(PTextSin, CellsE)
RowA == Row(PLinkRot, SubSeq(CellsA, 1, 5))
RowB == Row(PTextRot, CellsB)

\* Pages for one call of scrape_fuel_prices: any table for the fuel type asked
\* for, beside other tables the call must not look at
RichFuelPages ==
    {Page([f \in FuelTypeSet |-> IF f = g THEN tb ELSE Table(<<RowE>>)], NoBlock, NoBlock) :
       g \in FuelTypeSet, tb \in RichTables(FuelRowSet)}

\* Pages for the two main-page extractors: any region for one block, beside a
\* plain or absent other block
PlainBlocks == {NoBlock, Block(Table(<<RowE>>))}
RichBlocks == {NoBlock} \cup {Block(tb) : tb \in RichTables(BaseRowSet)}
RichBasePages ==
    {Page(NoTables, b, c) : b \in RichBlocks, c \in PlainBlocks}
    \cup {Page(NoTables, b, c) : b \in PlainBlocks, c \in RichBlocks}

\* Pages of a whole cycle: per fuel type an absent table, a one-row table, a
\* table that lists one port twice, or a table with rows to skip; the blocks
\* present or absent.
CycleTables ==
    {NoTable, Table(<<RowA>>), Table(<<RowA, RowB>>),
     Table(<<Row(NoPortCell, CellsE), Row(PTextSin, SubSeq(CellsA, 1, 4)), RowE>>)}
CycleBlocks1053 == {NoBlock, Block(NoTable), Block(Table(<<RowA, RowB>>))}
CycleBlocks1070 == {NoBlock, Block(Table(<<RowE>>))}
CycleFuelPages ==
    {Page(tbs, NoBlock, NoBlock) : tbs \in [FuelTypeSet -> CycleTables]}
CycleBasePages ==
    {Page(NoTables, b, c) : b \in CycleBlocks1053, c \in CycleBlocks1070}

\* The one page of the runs over several cycles
FullPage ==
    Page([f \in FuelTypeSet |-> Table(<<RowA>>)], Block(Table(<<RowB>>)),
         Block(Table(<<RowE>>)))
RunPages == {FullPage}

\* ------------------------------------------------------------------ state
VARIABLES
    pc,                   \* where main (or the function called alone) stands
    cycle,                \* runs of main started so far
    clock,                \* wall clock, seconds
    timestamp,            \* main's timestamp
    fi,                   \* index into fuel_types of the loop of main
    attempt,              \* loop variable of scrape_fuel_prices
    fuel_prices,          \* what scrape_fuel_prices returned
    methanol_prices,      \* what scrape_methanol_prices returned
    eua_prices,           \* what scrape_eua_prices returned
    all_fuel_prices,
    all_methanol_prices,
    all_eua_prices,
    soup,                 \* the parsed main page (the page given, in a call alone)
    price_table,          \* per fuel type, the table its successful attempt found
    log,                  \* the requests and sleeps of this run, in order
    files,                \* the file system: file name -> file
    files_before,         \* files when this run of main started
    calls,                \* per file, the data of every append_to_csv call so far
    summary               \* the summary main printed

vars ==
    <<pc, cycle, clock, timestamp, fi, attempt, fuel_prices, methanol_prices,
      eua_prices, all_fuel_prices, all_methanol_prices, all_eua_prices, soup,
      price_table, log, files, files_before, calls, summary>>

BasePageUrl == ""
GetEvent(fragment, ok) == [op |-> "get", url |-> fragment, ok |-> ok, secs |-> 0]
SleepEvent(secs) == [op |-> "sleep", url |-> "", ok |-> TRUE, secs |-> secs]

NoPage == Page(NoTables, NoBlock, NoBlock)
NoSummary == [printed |-> FALSE, fuel |-> 0, methanol |-> 0, eua |-> 0, total |-> 0]
NotFetched == [fetched |-> FALSE, table |-> NoTable]

\* The state before main runs, all files absent
Init ==
    /\ pc = "start"
    /\ cycle = 0
    /\ clock = 0
    /\ timestamp = <<>>
    /\ fi = 1
    /\ attempt = 0
    /\ fuel_prices = <<>>
    /\ methanol_prices = <<>>
    /\ eua_prices = <<>>
    /\ all_fuel_prices = <<>>
    /\ all_methanol_prices = <<>>
    /\ all_eua_prices = <<>>
    /\ soup = NoPage
    /\ price_table = [f \in FuelTypeSet |-> NotFetched]
    /\ log = <<>>
    /\ files = [n \in FileNames |-> NoFile]
    /\ files_before = [n \in FileNames |-> NoFile]
    /\ calls = [n \in FileNames |-> <<>>]
    /\ summary = NoSummary

\* ------------------------------------------------------------------- main
\* main, up to the first request: the timestamp and the empty containers
Start ==
    /\ pc = "start"
    /\ pc' = "base"
    /\ cycle' = cycle + 1
    /\ timestamp' = get_utc_timestamp(clock)
    /\ all_fuel_prices' = <<>>
    /\ all_methanol_prices' = <<>>
    /\ all_eua_prices' = <<>>
    /\ fuel_prices' = <<>>
    /\ methanol_prices' = <<>>
    /\ eua_prices' = <<>>
    /\ fi' = 1
    /\ attempt' = 0
    /\ soup' = NoPage
    /\ price_table' = [f \in FuelTypeSet |-> NotFetched]
    /\ log' = <<>>
    /\ files_before' = files
    /\ summary' = NoSummary
    /\ UNCHANGED <<clock, files, calls>>

\* The timestamp main puts on the records of the main page
BaseStamp == timestamp

\* The main-page request succeeds: both extractors run, their records are
\* stamped and added
FetchBaseOk(page) ==
    /\ pc = "base"
    /\ pc' = "fuel_call"
    /\ log' = Append(log, GetEvent(BasePageUrl, TRUE))
    /\ clock' = clock + FetchSeconds
    /\ soup' = page
    /\ methanol_prices' = StampAll(scrape_methanol_prices(page), BaseStamp)
    /\ eua_prices' = StampAll(scrape_eua_prices(page), BaseStamp)
    /\ all_methanol_prices' = all_methanol_prices \o methanol_prices'
    /\ all_eua_prices' = all_eua_prices \o eua_prices'
    /\ UNCHANGED <<cycle, timestamp, fi, attempt, fuel_prices, all_fuel_prices,
                   price_table, files, files_before, calls, summary>>

\* Mutation: the main-page request is retried like a fuel page's
FetchBaseFailRetrying ==
    /\ pc = "base"
    /\ log' = Append(log, GetEvent(BasePageUrl, FALSE))
    /\ clock' = clock + RequestTimeout
    /\ pc' = IF Len(log') >= max_retries THEN "fuel_call" ELSE "base"
    /\ UNCHANGED <<cycle, timestamp, fi, attempt, fuel_prices, methanol_prices,
                   eua_prices, all_fuel_prices, all_methanol_prices,
                   all_eua_prices, soup, price_table, files, files_before,
                   calls, summary>>

\* The main-page request fails: main prints the error and goes on.  A failed
\* request is taken to last the whole timeout, a successful one FetchSeconds.
FetchBaseFail ==
    /\ pc = "base"
    /\ log' = Append(log, GetEvent(BasePageUrl, FALSE))
    /\ clock' = clock + RequestTimeout
    /\ pc' = "fuel_call"
    /\ UNCHANGED <<cycle, timestamp, fi, attempt, fuel_prices, methanol_prices,
                   eua_prices, all_fuel_prices, all_methanol_prices,
                   all_eua_prices, soup, price_table, files, files_before,
                   calls, summary>>

\* ------------------------------------------------------ scrape_fuel_prices
\* An attempt whose request succeeds: the function returns what it parsed
FuelAttemptOk(page) ==
    /\ pc = "fuel_call"
    /\ attempt < max_retries
    /\ pc' = "fuel_ret"
    /\ log' = Append(log, GetEvent(FuelTypes[fi], TRUE))
    /\ clock' = clock + FetchSeconds
    /\ fuel_prices' = ParseFuelPage(page, FuelTypes[fi])
    /\ price_table' = [price_table EXCEPT ![FuelTypes[fi]] =
                         [fetched |-> TRUE, table |-> page.tables[FuelTypes[fi]]]]
    /\ UNCHANGED <<cycle, timestamp, fi, attempt, methanol_prices, eua_prices,
                   all_fuel_prices, all_methanol_prices, all_eua_prices, soup,
                   files, files_before, calls, summary>>

\* Mutation: one retry fewer
RetriesLeftShort(a) == a < max_retries - 2

\* Mutation: the except branch never gives up
RetriesLeftAlways(a) == TRUE

\* Whether the except branch of attempt number a (from 0) sleeps and retries
RetriesLeft(a) == a < max_retries - 1

\* An attempt whose request fails: the except branch goes on to sleep, or
\* returns nothing when it was the last attempt
FuelAttemptFail ==
    /\ pc = "fuel_call"
    /\ attempt < max_retries
    /\ log' = Append(log, GetEvent(FuelTypes[fi], FALSE))
    /\ clock' = clock + RequestTimeout
    /\ IF RetriesLeft(attempt)
       THEN /\ pc' = "fuel_sleep"
            /\ UNCHANGED fuel_prices
       ELSE /\ fuel_prices' = <<>>
            /\ pc' = "fuel_ret"
    /\ UNCHANGED <<cycle, timestamp, fi, attempt, methanol_prices, eua_prices,
                   all_fuel_prices, all_methanol_prices, all_eua_prices, soup,
                   price_table, files, files_before, calls, summary>>

\* time.sleep(5) of the except branch, and the loop's next attempt
FuelSleep ==
    /\ pc = "fuel_sleep"
    /\ pc' = "fuel_call"
    /\ log' = Append(log, SleepEvent(RetryDelay))
    /\ clock' = clock + RetryDelay
    /\ attempt' = attempt + 1
    /\ UNCHANGED <<cycle, timestamp, fi, fuel_prices, methanol_prices,
                   eua_prices, all_fuel_prices, all_methanol_prices,
                   all_eua_prices, soup, price_table, files, files_before,
                   calls, summary>>

\* Mutation: the wall clock read again when the records are stamped
FuelStampNow == get_utc_timestamp(clock)

\* The timestamp main puts on the records of a fuel type
FuelStamp == timestamp

\* Mutation: the new records put in front
FuelExtendFront(all, prices) == prices \o all

\* Mutation: a record whose fuel type and port are already there is dropped
RECURSIVE DedupInto(_, _)
DedupInto(acc, rest) ==
    IF rest = <<>> THEN acc
    ELSE IF \E i \in 1..Len(acc) :
               acc[i].fuel_type = Head(rest).fuel_type /\ acc[i].port = Head(rest).port
         THEN DedupInto(acc, Tail(rest))
         ELSE DedupInto(Append(acc, Head(rest)), Tail(rest))

FuelExtendDedup(all, prices) == DedupInto(all, prices)

\* What main adds to all_fuel_prices for the records a call returned
FuelExtend(all, prices) == all \o prices

\* The rest of the body of main's loop over fuel_types, and the step to the
\* next fuel type
FuelLoopBody ==
    /\ pc = "fuel_ret"
    /\ all_fuel_prices' = FuelExtend(all_fuel_prices, StampAll(fuel_prices, FuelStamp))
    /\ fuel_prices' = StampAll(fuel_prices, FuelStamp)
    /\ IF fi < Len(FuelTypes)
       THEN /\ fi' = fi + 1
            /\ attempt' = 0
            /\ pc' = "fuel_call"
       ELSE /\ pc' = "save_fuel"
            /\ UNCHANGED <<fi, attempt>>
    /\ UNCHANGED <<cycle, clock, timestamp, methanol_prices, eua_prices,
                   all_methanol_prices, all_eua_prices, soup, price_table, log,
                   files, files_before, calls, summary>>

\* ------------------------------------------------------------ persistence
\* One "if all_x: append_to_csv(...)" of main, the call running to its end
Save(at, next, filename, data, fieldnames) ==
    /\ pc = at
    /\ pc' = next
    /\ IF data # <<>>
       THEN /\ files' = append_to_csv(files, filename, data, fieldnames)
            /\ calls' = [calls EXCEPT ![filename] = Append(@, data)]
       ELSE UNCHANGED <<files, calls>>
    /\ UNCHANGED <<cycle, clock, timestamp, fi, attempt, fuel_prices,
                   methanol_prices, eua_prices, all_fuel_prices,
                   all_methanol_prices, all_eua_prices, soup, price_table, log,
                   files_before, summary>>

SaveFuel == Save("save_fuel", "save_meth", FuelFile, all_fuel_prices, fuel_fieldnames)

SaveMethanol ==
    Save("save_meth", "save_eua", MethanolFile, all_methanol_prices,
         methanol_fieldnames)

SaveEua == Save("save_eua", "summary", EuaFile, all_eua_prices, eua_fieldnames)

SavePcs == {"save_fuel", "save_meth", "save_eua"}

\* The call of append_to_csv main is about to make
SaveCall ==
    CASE pc = "save_fuel" ->
           [filename |-> FuelFile, data |-> all_fuel_prices,
            fieldnames |-> fuel_fieldnames]
      [] pc = "save_meth" ->
           [filename |-> MethanolFile, data |-> all_methanol_prices,
            fieldnames |-> methanol_fieldnames]
      [] pc = "save_eua" ->
           [filename |-> EuaFile, data |-> all_eua_prices,
            fieldnames |-> eua_fieldnames]

\* open(filename, 'a') raises OSError: nothing in main catches it, the run
\* ends there with the file as it was
OpenRaises ==
    /\ pc \in SavePcs
    /\ SaveCall.data # <<>>
    /\ pc' = "aborted"
    /\ UNCHANGED <<cycle, clock, timestamp, fi, attempt, fuel_prices,
                   methanol_prices, eua_prices, all_fuel_prices,
                   all_methanol_prices, all_eua_prices, soup, price_table, log,
                   files, files_before, calls, summary>>

\* A call of append_to_csv that does not run to its end: after open() the
\* process dies ("crashed") or a write raises OSError ("aborted"), some of
\* the call's bytes having reached the file
SaveInterrupted(how) ==
    /\ pc \in SavePcs
    /\ SaveCall.data # <<>>
    /\ LET c == SaveCall
           pending == PendingLines(files, c.filename, c.data, c.fieldnames)
       IN  \E k \in 0..(Len(pending) - 1), torn \in BOOLEAN :
               files' = append_to_csv_cut(files, c.filename, c.data,
                                          c.fieldnames, k, torn)
    /\ pc' = how
    /\ UNCHANGED <<cycle, clock, timestamp, fi, attempt, fuel_prices,
                   methanol_prices, eua_prices, all_fuel_prices,
                   all_methanol_prices, all_eua_prices, soup, price_table, log,
                   files_before, calls, summary>>

\* The summary at the end of main
Summary ==
    /\ pc = "summary"
    /\ pc' = "done"
    /\ summary' = [printed |-> TRUE,
                   fuel |-> Len(all_fuel_prices),
                   methanol |-> Len(all_methanol_prices),
                   eua |-> Len(all_eua_prices),
                   total |-> Len(all_fuel_prices) + Len(all_methanol_prices)
                             + Len(all_eua_prices)]
    /\ UNCHANGED <<cycle, clock, timestamp, fi, attempt, fuel_prices,
                   methanol_prices, eua_prices, all_fuel_prices,
                   all_methanol_prices, all_eua_prices, soup, price_table, log,
                   files, files_before, calls>>

\* main is interrupted (the process dies) between two of its statements
Crash ==
    /\ pc \in {"base", "fuel_call", "fuel_sleep", "fuel_ret", "save_fuel",
               "save_meth", "save_eua", "summary"}
    /\ pc' = "crashed"
    /\ UNCHANGED <<cycle, clock, timestamp, fi, attempt, fuel_prices,
                   methanol_prices, eua_prices, all_fuel_prices,
                   all_methanol_prices, all_eua_prices, soup, price_table, log,
                   files, files_before, calls, summary>>

\* The script is run again, at the scheduler's next period
NextCycle ==
    /\ pc \in {"done", "crashed", "aborted"}
    /\ cycle < MaxCycles
    /\ pc' = "start"
    /\ clock' = (clock \div CronPeriod + 1) * CronPeriod
    /\ UNCHANGED <<cycle, timestamp, fi, attempt, fuel_prices, methanol_prices,
                   eua_prices, all_fuel_prices, all_methanol_prices,
                   all_eua_prices, soup, price_table, log, files, files_before,
                   calls, summary>>

\* One run of main over the pages of a cycle
Next ==
    \/ Start
    \/ \E page \in CycleBasePages : FetchBaseOk(page)
    \/ FetchBaseFail
    \/ \E page \in CycleFuelPages : FuelAttemptOk(page)
    \/ FuelAttemptFail
    \/ FuelSleep
    \/ FuelLoopBody
    \/ SaveFuel
    \/ SaveMethanol
    \/ SaveEua
    \/ OpenRaises
    \/ SaveInterrupted("aborted")
    \/ Summary

Spec == Init /\ [][Next]_vars

\* main runs to its end: a sequential program takes its next step
LiveSpec == Init /\ [][Next]_vars /\ WF_vars(Next)

\* The failed requests of the run so far
FailedRequests == Cardinality({i \in 1..Len(log) : log[i].op = "get" /\ ~log[i].ok})

\* Runs of main one after another on the same files, any of them interrupted,
\* with at most MaxFailures failed requests in a run
NextRuns ==
    \/ Start
    \/ \E page \in RunPages : FetchBaseOk(page)
    \/ FailedRequests < MaxFailures /\ FetchBaseFail
    \/ \E page \in RunPages : FuelAttemptOk(page)
    \/ FailedRequests < MaxFailures /\ FuelAttemptFail
    \/ FuelSleep
    \/ FuelLoopBody
    \/ SaveFuel
    \/ SaveMethanol
    \/ SaveEua
    \/ OpenRaises
    \/ \E how \in {"crashed", "aborted"} : SaveInterrupted(how)
    \/ Summary
    \/ Crash
    \/ NextCycle

SpecRuns == Init /\ [][NextRuns]_vars

\* main up to the end of its main-page step, over every main page
NextBase ==
    \/ Start
    \/ \E page \in RichBasePages : FetchBaseOk(page)
    \/ FetchBaseFail

SpecBase == Init /\ [][NextBase]_vars

\* One call of scrape_fuel_prices(url, fuel_type) for any fuel type, over
\* every fuel page
InitFuel ==
    /\ pc = "fuel_call"
    /\ cycle = 0
    /\ clock = 0
    /\ timestamp = <<>>
    /\ fi \in 1..Len(FuelTypes)
    /\ attempt = 0
    /\ fuel_prices = <<>>
    /\ methanol_prices = <<>>
    /\ eua_prices = <<>>
    /\ all_fuel_prices = <<>>
    /\ all_methanol_prices = <<>>
    /\ all_eua_prices = <<>>
    /\ soup = NoPage
    /\ price_table = [f \in FuelTypeSet |-> NotFetched]
    /\ log = <<>>
    /\ files = [n \in FileNames |-> NoFile]
    /\ files_before = [n \in FileNames |-> NoFile]
    /\ calls = [n \in FileNames |-> <<>>]
    /\ summary = NoSummary

NextFuel ==
    \/ \E page \in RichFuelPages : FuelAttemptOk(page)
    \/ FuelAttemptFail
    \/ FuelSleep

SpecFuel == InitFuel /\ [][NextFuel]_vars

\* Calls of append_to_csv alone, on files that do not exist at first
Fieldnames(filename) ==
    CASE filename = FuelFile -> fuel_fieldnames
      [] filename = MethanolFile -> methanol_fieldnames
      [] filename = EuaFile -> eua_fieldnames

SinkData(filename) ==
    CASE filename = FuelFile ->
           {<<>>,
            StampAll(FuelRows(<<RowA>>, "VLSFO"), get_utc_timestamp(0)),
            StampAll(FuelRows(<<RowA, RowE>>, "MGO"), get_utc_timestamp(CronPeriod))}
      [] filename = MethanolFile ->
           {<<>>, StampAll(MethanolRows(<<RowB>>), get_utc_timestamp(0))}
      [] filename = EuaFile ->
           {<<>>, StampAll(scrape_eua_prices(FullPage), get_utc_timestamp(0))}

CallsMade == Len(calls[FuelFile]) + Len(calls[MethanolFile]) + Len(calls[EuaFile])

SinkAppend(filename, data) ==
    /\ pc = "sink"
    /\ CallsMade < MaxAppends
    /\ files' = append_to_csv(files, filename, data, Fieldnames(filename))
    /\ calls' = [calls EXCEPT ![filename] = Append(@, data)]
    /\ UNCHANGED <<pc, cycle, clock, timestamp, fi, attempt, fuel_prices,
                   methanol_prices, eua_prices, all_fuel_prices,
                   all_methanol_prices, all_eua_prices, soup, price_table, log,
                   files_before, summary>>

InitSink ==
    /\ pc = "sink"
    /\ cycle = 0
    /\ clock = 0
    /\ timestamp = <<>>
    /\ fi = 1
    /\ attempt = 0
    /\ fuel_prices = <<>>
    /\ methanol_prices = <<>>
    /\ eua_prices = <<>>
    /\ all_fuel_prices = <<>>
    /\ all_methanol_prices = <<>>
    /\ all_eua_prices = <<>>
    /\ soup = NoPage
    /\ price_table = [f \in FuelTypeSet |-> NotFetched]
    /\ log = <<>>
    /\ files = [n \in FileNames |-> NoFile]
    /\ files_before = [n \in FileNames |-> NoFile]
    /\ calls = [n \in FileNames |-> <<>>]
    /\ summary = NoSummary

NextSink == \E filename \in FileNames : \E data \in SinkData(filename) :
                SinkAppend(filename, data)

SpecSink == InitSink /\ [][NextSink]_vars

\* ================================================================= claims
Last(s) == s[Len(s)]
IsGet(e) == e.op = "get"
IsSleep(e) == e.op = "sleep"
GetsFor(fragment) == SelectSeq(log, LAMBDA e : IsGet(e) /\ e.url = fragment)
AllGets == SelectSeq(log, IsGet)
NoGetSucceeded == \A i \in 1..Len(log) : IsGet(log[i]) => ~log[i].ok
IsPrefix(a, b) == Len(a) <= Len(b) /\ SubSeq(b, 1, Len(a)) = a

\* Whether the bytes of the lines a are the first bytes of the lines b
Continues(c, x) ==
    \/ x = c
    \/ x[1] = "joined" /\ x[2] = c[2]
    \/ x[1] = "cut" /\ x[2][1] = "joined" /\ x[2][2] = c[2]
Extends(a, b) ==
    IF EndsCut(a)
    THEN /\ Len(a) <= Len(b)
         /\ SubSeq(b, 1, Len(a) - 1) = SubSeq(a, 1, Len(a) - 1)
         /\ Continues(a[Len(a)], b[Len(a)])
    ELSE IsPrefix(a, b)
CalledFuel == FuelTypes[fi]

\* ---- C1
ExhaustedLog(f) ==
    <<GetEvent(f, FALSE), SleepEvent(5), GetEvent(f, FALSE), SleepEvent(5),
      GetEvent(f, FALSE)>>

\* C1: a call of scrape_fuel_prices all of whose requests fail makes exactly 3
\* requests with one 5-second sleep between each two of them and none after
\* the last, and then returns the empty list: while no request has succeeded
\* the requests and sleeps so far are a prefix of get, sleep 5, get, sleep 5,
\* get, and a call that has returned without a success has made all of them.
C1_FetchExhaustion ==
    NoGetSucceeded =>
        /\ IsPrefix(log, ExhaustedLog(CalledFuel))
        /\ pc = "fuel_ret" =>
              /\ log = ExhaustedLog(CalledFuel)
              /\ Len(AllGets) = 3
              /\ Len(SelectSeq(log, IsSleep)) = 2
              /\ fuel_prices = <<>>

C1_Witness ==
    /\ pc = "fuel_ret"
    /\ NoGetSucceeded
    /\ Len(AllGets) = 3
    /\ fuel_prices = <<>>

\* ---- C8
HasPrice(c) == c.price
FuelQualifies(row) == row.port.has_port /\ Len(row.cells) >= 5
FoundRows(f) ==
    IF price_table[f].fetched /\ price_table[f].table.present
       /\ price_table[f].table.has_tbody
    THEN price_table[f].table.rows
    ELSE <<>>

\* C8: what a successful call of scrape_fuel_prices returns holds one record
\* per row of the table that has a port cell and at least 5 data cells, in
\* document order, and none for any other row; the record's price, change,
\* high, low and spread are the normalised cells 0..4 of its row, in that order.
C8_FuelRowsKept ==
    (pc = "fuel_ret" /\ price_table[CalledFuel].fetched) =>
        LET q == SelectSeq(FoundRows(CalledFuel), FuelQualifies)
        IN  /\ Len(fuel_prices) = Len(q)
            /\ \A i \in 1..Len(q) :
                 /\ fuel_prices[i].fuel_type = CalledFuel
                 /\ fuel_prices[i].port = port_name(q[i])
                 /\ fuel_prices[i].price_usd_mt = clean_numeric_value(q[i].cells[1].text)
                 /\ fuel_prices[i].change = clean_numeric_value(q[i].cells[2].text)
                 /\ fuel_prices[i].high = clean_numeric_value(q[i].cells[3].text)
                 /\ fuel_prices[i].low = clean_numeric_value(q[i].cells[4].text)
                 /\ fuel_prices[i].spread = clean_numeric_value(q[i].cells[5].text)

\* A first row that is skipped (a port cell, 4 data cells) before a row that is kept
C8_Witness ==
    /\ pc = "fuel_ret"
    /\ price_table[CalledFuel].fetched
    /\ Len(FoundRows(CalledFuel)) = 2
    /\ FoundRows(CalledFuel)[1].port.has_port
    /\ Len(FoundRows(CalledFuel)[1].cells) = 4
    /\ FuelQualifies(FoundRows(CalledFuel)[2])
    /\ Len(fuel_prices) = 1

\* ---- C9
MethanolQualifies(row) ==
    row.port.has_port /\ Len(SelectSeq(row.cells, HasPrice)) >= 3
SoupMethanolRows ==
    IF soup.block_1053.present /\ soup.block_1053.table.present
       /\ soup.block_1053.table.has_tbody
    THEN soup.block_1053.table.rows
    ELSE <<>>
BasePageFetched == \E i \in 1..Len(log) : IsGet(log[i]) /\ log[i].url = "" /\ log[i].ok

\* C9: the methanol records of a fetched main page are one per row that has a
\* port cell and at least 3 price-tagged cells, in document order; the record
\* takes meoh_vlsfoe_usd_mte from price-tagged cell 0, meoh_mgoe_usd_mte from
\* cell 1 and gray_methanol_usd_mt from cell 2, whatever cells follow; a row
\* with fewer than 3 price-tagged cells gives no record.
C9_MethanolMapping ==
    (pc = "fuel_call" /\ BasePageFetched) =>
        LET q == SelectSeq(SoupMethanolRows, MethanolQualifies)
        IN  /\ Len(all_methanol_prices) = Len(q)
            /\ \A i \in 1..Len(q) :
                 LET pcs == SelectSeq(q[i].cells, HasPrice)
                     rec == all_methanol_prices[i]
                 IN  /\ rec.port = port_name(q[i])
                     /\ rec.meoh_vlsfoe_usd_mte = clean_numeric_value(pcs[1].text)
                     /\ rec.meoh_mgoe_usd_mte = clean_numeric_value(pcs[2].text)
                     /\ rec.gray_methanol_usd_mt = clean_numeric_value(pcs[3].text)

\* A row with 4 price-tagged cells after a row with 2: one record, three
\* different values
C9_Witness ==
    /\ pc = "fuel_call"
    /\ BasePageFetched
    /\ Len(SoupMethanolRows) = 2
    /\ SoupMethanolRows[1].port.has_port
    /\ Len(SelectSeq(SoupMethanolRows[1].cells, HasPrice)) = 2
    /\ Len(SelectSeq(SoupMethanolRows[2].cells, HasPrice)) = 4
    /\ Len(all_methanol_prices) = 1
    /\ all_methanol_prices[1].meoh_vlsfoe_usd_mte # all_methanol_prices[1].meoh_mgoe_usd_mte
    /\ all_methanol_prices[1].meoh_mgoe_usd_mte # all_methanol_prices[1].gray_methanol_usd_mt
    /\ all_methanol_prices[1].gray_methanol_usd_mt # all_methanol_prices[1].meoh_vlsfoe_usd_mte

\* ---- C4
RECURSIVE Flatten(_)
Flatten(ss) == IF ss = <<>> THEN <<>> ELSE Head(ss) \o Flatten(Tail(ss))

IsHeader(line) == line[1] = "header"

\* C4: after n >= 1 calls of append_to_csv on a file that did not exist, the
\* file holds one header line, first, and then the data lines of call 1, of
\* call 2, ..., of call n; with no call there is no file.
C4_OneHeader ==
    \A n \in FileNames :
        IF calls[n] = <<>> THEN files[n] = NoFile
        ELSE /\ files[n].exists
             /\ files[n].lines =
                    <<<<"header", Fieldnames(n)>>>>
                    \o DataLines(Flatten(calls[n]), Fieldnames(n))
             /\ Len(SelectSeq(files[n].lines, IsHeader)) = 1

\* Two appends with data to a fresh file
C4_Witness ==
    /\ Len(calls[FuelFile]) = 2
    /\ calls[FuelFile][1] # <<>>
    /\ calls[FuelFile][2] # <<>>
    /\ Len(files[FuelFile].lines) = 1 + Len(calls[FuelFile][1]) + Len(calls[FuelFile][2])

\* ---- C2
FuelIndex(f) == CHOOSE i \in 1..3 : <<"VLSFO", "MGO", "IFO380">>[i] = f
FuelGets == SelectSeq(log, LAMBDA e : IsGet(e) /\ e.url # "")
Produced(f) == StampAll(TableRecords(price_table[f].table, f), timestamp)

\* C2: when the loop over the fuel types has ended and the fuel file has had
\* its turn, every fuel type was requested, in the order VLSFO, MGO, IFO380,
\* whatever the others yielded, and the collection is the records of VLSFO,
\* then of MGO, then of IFO380 (nothing for a type whose table was absent or
\* whose requests all failed); append_to_csv was called once with exactly
\* that collection unless it is empty.
C2_PerFuelIsolation ==
    pc = "save_meth" =>
        LET expected == Produced("VLSFO") \o Produced("MGO") \o Produced("IFO380")
        IN  /\ \A f \in {"VLSFO", "MGO", "IFO380"} : GetsFor(f) # <<>>
            /\ \A i, j \in 1..Len(FuelGets) :
                 i < j => FuelIndex(FuelGets[i].url) <= FuelIndex(FuelGets[j].url)
            /\ all_fuel_prices = expected
            /\ calls[FuelFile] = IF expected = <<>> THEN <<>> ELSE <<expected>>

\* VLSFO's table absent, MGO and IFO380 with records
C2_Witness ==
    /\ pc = "save_meth"
    /\ price_table["VLSFO"].fetched
    /\ ~price_table["VLSFO"].table.present
    /\ Produced("MGO") # <<>>
    /\ Produced("IFO380") # <<>>
    /\ calls[FuelFile] = <<Produced("MGO") \o Produced("IFO380")>>
    /\ all_fuel_prices[1].fuel_type = "MGO"
    /\ Last(all_fuel_prices).fuel_type = "IFO380"

\* ---- C3
Succeeded(url) == \E i \in 1..Len(log) : IsGet(log[i]) /\ log[i].url = url /\ log[i].ok
RetriedToBound(url) == ~Succeeded(url) => Len(GetsFor(url)) = 3

\* C3 as stated: once every fetch of the cycle is over, a page none of whose
\* requests succeeded was requested 3 times, the main page included.
C3_Original ==
    pc = "save_fuel" => \A url \in {""} \cup FuelTypeSet : RetriedToBound(url)

\* C3 as amended: each fuel-type page is requested until a request succeeds,
\* at most 3 times, and a fuel type all 3 of whose requests failed adds no
\* record; the main page is requested exactly once, and when that one request
\* fails the cycle has no methanol and no compliance-cost record.
C3_Amended ==
    /\ pc \notin {"start", "base"} =>
          /\ Len(GetsFor("")) = 1
          /\ ~Succeeded("") => all_methanol_prices = <<>> /\ all_eua_prices = <<>>
    /\ \A f \in FuelTypeSet : Len(GetsFor(f)) <= 3
    /\ pc = "save_fuel" =>
          \A f \in FuelTypeSet :
              /\ RetriedToBound(f)
              /\ Succeeded(f) => Last(GetsFor(f)).ok
              /\ ~Succeeded(f) =>
                    \A i \in 1..Len(all_fuel_prices) : all_fuel_prices[i].fuel_type # f

\* The main page failed once and was not asked for again; one fuel type
\* failed 3 times, another succeeded at its second request
C3_Witness ==
    /\ pc = "save_fuel"
    /\ ~Succeeded("")
    /\ Len(GetsFor("")) = 1
    /\ ~Succeeded("VLSFO")
    /\ Len(GetsFor("VLSFO")) = 3
    /\ Succeeded("MGO")
    /\ Len(GetsFor("MGO")) = 2
    /\ all_fuel_prices # <<>>

\* ---- C7
SameKey(r1, r2) == r1.fuel_type = r2.fuel_type /\ r1.port = r2.port
RecordsOf(f, p) ==
    SelectSeq(all_fuel_prices, LAMBDA r : r.fuel_type = f /\ r.port = p)
RowsOf(f, p) ==
    SelectSeq(FoundRows(f), LAMBDA row : FuelQualifies(row) /\ port_name(row) = p)
PortsSeen(f) ==
    {port_name(FoundRows(f)[i]) : i \in 1..Len(FoundRows(f))}
    \cup {all_fuel_prices[i].port : i \in 1..Len(all_fuel_prices)}

\* C7 as stated: no two records of the cycle's fuel-price collection share
\* fuel_type and port.
C7_Original ==
    \A i, j \in 1..Len(all_fuel_prices) :
        i # j => ~SameKey(all_fuel_prices[i], all_fuel_prices[j])

\* C7 as amended: the collection holds, for every fuel type and port, as many
\* records as the table found for that fuel type has rows with that port name
\* (and a port cell and at least 5 data cells): one record per row, none
\* merged or dropped, so two records share fuel_type and port exactly when
\* the table lists the port twice.
C7_Amended ==
    pc = "save_fuel" =>
        \A f \in FuelTypeSet : \A p \in PortsSeen(f) :
            Len(RecordsOf(f, p)) = Len(RowsOf(f, p))

\* A table that lists one port twice: two records with the same key
C7_Witness ==
    /\ pc = "save_fuel"
    /\ \E i, j \in 1..Len(all_fuel_prices) :
          i # j /\ SameKey(all_fuel_prices[i], all_fuel_prices[j])

\* ---- C10
RunningPcs ==
    {"start", "base", "fuel_call", "fuel_sleep", "fuel_ret", "save_fuel",
     "save_meth", "save_eua", "summary", "done", "aborted"}

\* Every request of the run has been made and has come to its end
FetchingOver ==
    /\ Len(GetsFor("")) = 1
    /\ \A f \in FuelTypeSet : Succeeded(f) \/ Len(GetsFor(f)) = 3

C10_Safe ==
    /\ pc \in RunningPcs
    /\ Len(AllGets) <= 1 + 3 * 3
    /\ pc = "aborted" => FetchingOver
    /\ pc = "done" =>
          /\ summary.printed
          /\ summary.fuel = Len(all_fuel_prices)
          /\ summary.methanol = Len(all_methanol_prices)
          /\ summary.eua = Len(all_eua_prices)
          /\ summary.total = summary.fuel + summary.methanol + summary.eua
          /\ ~Succeeded("") => summary.methanol = 0 /\ summary.eua = 0
          /\ \A f \in FuelTypeSet :
                ~Succeeded(f) =>
                    \A i \in 1..Len(all_fuel_prices) : all_fuel_prices[i].fuel_type # f
          /\ files[FuelFile].exists = (all_fuel_prices # <<>>)
          /\ files[MethanolFile].exists = (all_methanol_prices # <<>>)
          /\ files[EuaFile].exists = (all_eua_prices # <<>>)

\* C10: whatever fails while fetching or extracting, main makes at most
\* 1 + 3*3 requests, never stops while it fetches and extracts, and does
\* reach the persistence step; from there it reaches its end, the summary
\* printed with a failed category counted as zero records, unless opening a
\* file that has records to take raises, which is a failure of neither
\* fetching nor extracting.
C10_NothingFatal ==
    [](C10_Safe) /\ <>(pc = "save_fuel") /\ <>(pc = "done" \/ pc = "aborted")

\* Main page failed, VLSFO exhausted, MGO's table absent, IFO380 with rows to
\* skip: the summary is printed all the same
C10_Witness ==
    /\ pc = "done"
    /\ summary.printed
    /\ ~Succeeded("")
    /\ ~Succeeded("VLSFO")
    /\ price_table["MGO"].fetched /\ ~price_table["MGO"].table.present
    /\ Len(FoundRows("IFO380")) = 3
    /\ summary.total = 1
    /\ Len(AllGets) = 1 + 3 + 1 + 3

\* ---- C5
C5_Step ==
    /\ \A n \in FileNames :
          /\ files[n].exists => files'[n].exists
          /\ Extends(files[n].lines, files'[n].lines)
          /\ Extends(files_before[n].lines, files[n].lines)
    /\ files'[FuelFile] # files[FuelFile] => pc = "save_fuel"
    /\ files'[MethanolFile] # files[MethanolFile] => pc = "save_meth"
    /\ files'[EuaFile] # files[EuaFile] => pc = "save_eua"
    /\ pc \in {"done", "crashed", "aborted"} => files' = files

\* C5: no step of any run changes a file other than by adding lines at its
\* end, so what a file held when a run started is a prefix of what it holds
\* later; the fuel file is written at the fuel step, the methanol file at the
\* next and the compliance-cost file at the last, and an interruption undoes
\* nothing, neither when it comes nor when the script is run again: after a
\* crash that follows the fuel write the fuel file is updated and the
\* methanol file is as it was.
C5_PureAppend == [][C5_Step]_vars

\* A second run interrupted between the fuel write and the methanol write
C5_Witness ==
    /\ pc = "crashed"
    /\ cycle = 2
    /\ files_before[FuelFile].exists
    /\ files_before[MethanolFile].exists
    /\ Len(files[FuelFile].lines) > Len(files_before[FuelFile].lines)
    /\ all_methanol_prices # <<>>
    /\ files[MethanolFile] = files_before[MethanolFile]

\* ---- C6
\* What the run wrote of a line of the file: the line, whole or cut short,
\* without the part an earlier run left in front of it
Written(x) ==
    LET whole == IF x[1] = "cut" THEN x[2] ELSE x
    IN  IF whole[1] = "joined" THEN whole[3] ELSE whole

\* The lines the run has written to file n so far
NewLines(n) ==
    LET before == files_before[n].lines
        now == files[n].lines
        onto == IF EndsCut(before) /\ now[Len(before)] # before[Len(before)]
                THEN <<now[Len(before)]>> ELSE <<>>
        all == onto \o SubSeq(now, Len(before) + 1, Len(now))
    IN  [i \in 1..Len(all) |-> Written(all[i])]
NewDataLines(n) == SelectSeq(NewLines(n), LAMBDA line : ~IsHeader(line))

\* C6: the timestamp is the one of the clock before the run's first request,
\* and every data line any of the three files has gained in this run starts
\* with that timestamp, however far the clock has moved since; none starts
\* with an empty timestamp.
C6_OneTimestamp ==
    /\ (pc = "base" /\ log = <<>>) => timestamp = get_utc_timestamp(clock)
    /\ pc # "start" =>
          \A n \in FileNames : \A i \in 1..Len(NewDataLines(n)) :
              /\ NewDataLines(n)[i][2][1] = timestamp
              /\ NewDataLines(n)[i][2][1] # <<>>

\* A second run whose requests were retried into the next minute, all three
\* files written
C6_Witness ==
    /\ pc = "done"
    /\ cycle = 2
    /\ get_utc_timestamp(clock) # timestamp
    /\ \E i \in 1..Len(log) : IsSleep(log[i])
    /\ \A n \in FileNames : NewDataLines(n) # <<>>
    /\ \A n \in FileNames : files_before[n].exists
====
